---- MODULE Spec2Model ----
(***************************************************************************)
(* red_memo: Memoizer<K,V>, a memoization cache for a recursive user       *)
(* function (src/src/lib.rs).  Two Memoizers, one built by new_hash and    *)
(* one by new_ord over the same user function, are driven by the same      *)
(* sequence of calls.  A lookup runs as a stack of frames: the user        *)
(* function receives the Memoizer and calls back into it.                  *)
(***************************************************************************)
EXTENDS Integers, Sequences, FiniteSets, TLC

\* Keys are 0..MaxKey (K = usize in the tests).
MaxKey == 3
\* Number of buckets of the modelled HashMap table.
NBuckets == 2

\* Depth of nested lookups at which the thread's stack is exhausted.
StackLimit == 64

Keys == 0..MaxKey

Backends == {"hash", "ord"}

\* ---- Option<T>, Result<(), V> and MemoVal<V> ----
None == [some |-> FALSE]
Some(x) == [some |-> TRUE, x |-> x]
Ok == [ok |-> TRUE]
Err(old) == [ok |-> FALSE, old |-> old]

InProgress == [tag |-> "InProgress"]
Finished(v) == [tag |-> "Finished", v |-> v]

\* ---- HashMap<K, MemoVal<V>>: a seeded table of buckets of (key, value) ----
Hash(seed, k) == (k + seed) % NBuckets

HashMapNew(seed) == [seed |-> seed, buckets |-> [i \in 0..(NBuckets - 1) |-> <<>>]]

\* HashMapFind taking the first entry of the bucket without comparing keys.
HashMapFind_NoEq(h, k) ==
    LET bi == Hash(h.seed, k)
    IN  IF h.buckets[bi] = <<>> THEN None ELSE Some(<<bi, 1>>)

HashMapFind(h, k) ==
    LET bi == Hash(h.seed, k)
        hits == {i \in 1..Len(h.buckets[bi]) : h.buckets[bi][i][1] = k}
    IN  IF hits = {} THEN None ELSE Some(<<bi, CHOOSE i \in hits : TRUE>>)

\* HashMapInsert reporting success without storing the entry.
HashMapInsert_Drop(h, k, v) == [map |-> h, res |-> Ok]

HashMapInsert(h, k, v) ==
    LET at == HashMapFind(h, k)
        bi == Hash(h.seed, k)
    IN  IF at.some
        THEN [map |-> [h EXCEPT !.buckets[at.x[1]][at.x[2]] = <<k, v>>],
              res |-> Err(h.buckets[at.x[1]][at.x[2]][2])]
        ELSE [map |-> [h EXCEPT !.buckets[bi] = Append(@, <<k, v>>)],
              res |-> Ok]

\* HashMapGet looking in the bucket of the unseeded hash.
HashMapGet_WrongBucket(h, k) ==
    LET bi == k % NBuckets
        hits == {i \in 1..Len(h.buckets[bi]) : h.buckets[bi][i][1] = k}
    IN  IF hits = {} THEN None ELSE Some(h.buckets[bi][CHOOSE i \in hits : TRUE][2])

HashMapGet(h, k) ==
    LET at == HashMapFind(h, k)
    IN  IF at.some THEN Some(h.buckets[at.x[1]][at.x[2]][2]) ELSE None

HashMapGetMut(h, k) == HashMapFind(h, k)

\* HashMapWrite writing through to the head of the bucket.
HashMapWrite_First(h, at, v) == [h EXCEPT !.buckets[at[1]][1][2] = v]

HashMapWrite(h, at, v) == [h EXCEPT !.buckets[at[1]][at[2]][2] = v]

HashMapEntries(h) ==
    UNION {{h.buckets[bi][i] : i \in 1..Len(h.buckets[bi])} : bi \in 0..(NBuckets - 1)}

\* ---- BTreeMap<K, MemoVal<V>>: (key, value) pairs in key order ----
BTreeMapNew == <<>>

\* Ordered search: the first entry whose key is not below k decides.
BTreeMapFind(t, k) ==
    LET notBelow == {i \in 1..Len(t) : t[i][1] >= k}
        first == CHOOSE i \in notBelow : \A j \in notBelow : i <= j
    IN  IF notBelow = {} THEN None
        ELSE IF t[first][1] = k THEN Some(first) ELSE None

\* BTreeMapInsert putting a new entry last instead of at its place in the order.
BTreeMapInsert_Append(t, k, v) ==
    LET at == BTreeMapFind(t, k)
    IN  IF at.some
        THEN [map |-> [t EXCEPT ![at.x] = <<k, v>>], res |-> Err(t[at.x][2])]
        ELSE [map |-> Append(t, <<k, v>>), res |-> Ok]

BTreeMapInsert(t, k, v) ==
    LET at == BTreeMapFind(t, k)
        pos == Cardinality({i \in 1..Len(t) : t[i][1] < k})
    IN  IF at.some
        THEN [map |-> [t EXCEPT ![at.x] = <<k, v>>], res |-> Err(t[at.x][2])]
        ELSE [map |-> SubSeq(t, 1, pos) \o <<<<k, v>>>> \o SubSeq(t, pos + 1, Len(t)),
              res |-> Ok]

BTreeMapGet(t, k) ==
    LET at == BTreeMapFind(t, k)
    IN  IF at.some THEN Some(t[at.x][2]) ELSE None

BTreeMapGetMut(t, k) == BTreeMapFind(t, k)

BTreeMapWrite(t, at, v) == [t EXCEPT ![at][2] = v]

BTreeMapEntries(t) == {t[i] : i \in 1..Len(t)}

\* ---- dyn MemoStruct: dispatch on the backend chosen at construction ----
insert(b, c, k, v) == IF b = "hash" THEN HashMapInsert(c, k, v) ELSE BTreeMapInsert(c, k, v)
get(b, c, k) == IF b = "hash" THEN HashMapGet(c, k) ELSE BTreeMapGet(c, k)
get_mut(b, c, k) == IF b = "hash" THEN HashMapGetMut(c, k) ELSE BTreeMapGetMut(c, k)
write(b, c, at, v) == IF b = "hash" THEN HashMapWrite(c, at, v) ELSE BTreeMapWrite(c, at, v)
Entries(b, c) == IF b = "hash" THEN HashMapEntries(c) ELSE BTreeMapEntries(c)

\* ---- the inputs: user functions and memoization predicates ----
\* A user function is a straight-line body per key: nested calls on the
\* Memoizer handle, in order; its value is Base plus the looked-up values.
\*   fibonacci  tests::fibonacci
\*   ring       key 0 is a leaf; keys 1..MaxKey depend on each other in a cycle
\*   peek       calls lookup_immut on its own key and on the key below
\*   tuner      replaces the predicate, then looks up the key below
\*   loop       installs the accept-all predicate, then looks up its own key
UserFunctions == {"fibonacci", "ring", "peek", "tuner", "loop"}
Predicates == {"all", "none", "odd"}

LookupOp(k) == [op |-> "lookup", k |-> k, p |-> "all"]
ImmutOp(k) == [op |-> "lookup_immut", k |-> k, p |-> "all"]
SetPredOp(p) == [op |-> "set_memo_predicate", k |-> 0, p |-> p]

\* tests::fibonacci: k < 2 => k, else lookup(k-1) + lookup(k-2).
fibonacci_body(k) == IF k < 2 THEN <<>> ELSE <<LookupOp(k - 1), LookupOp(k - 2)>>
fibonacci_base(k) == IF k < 2 THEN k ELSE 0

\* The Fibonacci numbers, computed without the Memoizer: F(0) = 0, F(1) = 1,
\* F(n) = F(n-1) + F(n-2), iterated from the bottom.
RECURSIVE FibIter(_, _, _)
FibIter(n, a, b) == IF n = 0 THEN a ELSE FibIter(n - 1, b, a + b)
fib(n) == FibIter(n, 0, 1)

\* The keys tests::fibs_ord and tests::fibs_hash look up.
TestKeys == {0, 1, 2, 3, 20, 30, 40}

Body(f, k) ==
    CASE f = "fibonacci" -> fibonacci_body(k)
      [] f = "ring" -> IF k = 0 THEN <<>>
                       ELSE <<LookupOp((k % MaxKey) + 1), LookupOp(0)>>
      [] f = "peek" -> <<ImmutOp(k)>> \o
                       (IF k > 0 THEN <<LookupOp(k - 1), ImmutOp(k - 1)>> ELSE <<>>)
      [] f = "tuner" -> <<SetPredOp(IF k % 2 = 0 THEN "none" ELSE "all")>> \o
                        (IF k > 0 THEN <<LookupOp(k - 1)>> ELSE <<>>)
      [] f = "loop" -> <<SetPredOp("all"), LookupOp(k)>>

Base(f, k) ==
    CASE f = "fibonacci" -> fibonacci_base(k)
      [] f = "ring" -> 1
      [] f = "peek" -> k + 1
      [] f = "tuner" -> k
      [] f = "loop" -> 1

PredApply(p, k) ==
    CASE p = "all" -> TRUE
      [] p = "none" -> FALSE
      [] p = "odd" -> k % 2 = 1

\* ---- state ----
\* memo[b]: the Memoizer built on backend b (cache, memo_predicate), the stack
\* of lookups running on it, and the record of the caller's current and
\* previous call.  user_function: the function both were constructed with.
\* life[b]: the record of first-miss decisions on memo[b], kept under LifeSpec.
VARIABLES memo, user_function, life

vars == <<memo, user_function, life>>

NoCall == [op |-> "new", k |-> 0, p |-> "all", out |-> "ret", val |-> None,
           msg |-> <<"", 0>>, path |-> "none", pred |-> None, save |-> FALSE,
           n |-> 0, reent |-> FALSE, unwound |-> {}]
NoEvent == [step |-> "new", invoked |-> FALSE, consulted |-> FALSE]
\* Over the Memoizer's life: the keys whose first miss was accepted by the
\* persist decision, those whose first miss was rejected, and the accepted
\* keys the user function was invoked for again.
NoLife == [accepted |-> {}, rejected |-> {}, again |-> {}]

\* Memoizer::new_hash / Memoizer::new_ord
new_hash(seed) ==
    [cache |-> HashMapNew(seed), memo_predicate |-> None, stack |-> <<>>,
     status |-> "ready", cur |-> NoCall, prev |-> NoCall, ev |-> NoEvent]
new_ord ==
    [cache |-> BTreeMapNew, memo_predicate |-> None, stack |-> <<>>,
     status |-> "ready", cur |-> NoCall, prev |-> NoCall, ev |-> NoEvent]

Init ==
    /\ user_function \in UserFunctions
    /\ \E seed \in 0..(NBuckets - 1) :
          memo = [b \in Backends |-> IF b = "hash" THEN new_hash(seed) ELSE new_ord]
    /\ life = [b \in Backends |-> NoLife]

\* ---- Memoizer::set_memo_predicate and Memoizer::lookup_immut ----
\* set_memo_predicate keeping a predicate that is already installed.
set_memo_predicate_Keep(m, p) ==
    [m EXCEPT !.memo_predicate = IF @.some THEN @ ELSE Some(p)]

set_memo_predicate(m, p) == [m EXCEPT !.memo_predicate = Some(p)]

\* lookup_immut handing out a default value for an InProgress marker.
lookup_immut_Partial(b, m, k) ==
    LET mv == get(b, m.cache, k)
    IN  IF ~mv.some THEN None
        ELSE IF mv.x.tag = "InProgress" THEN Some(0) ELSE Some(mv.x.v)

lookup_immut(b, m, k) ==
    LET mv == get(b, m.cache, k)
    IN  IF ~mv.some THEN None
        ELSE IF mv.x.tag = "InProgress" THEN None ELSE Some(mv.x.v)

\* ---- Memoizer::lookup, one frame per call ----
Frame(k) == [k |-> k, pc |-> "enter", save |-> FALSE, i |-> 1, acc |-> 0, peeked |-> None]

Depth(m) == Len(m.stack)
Top(m) == m.stack[Len(m.stack)]
Pop(m) == [m EXCEPT !.stack = SubSeq(@, 1, Len(@) - 1)]
Event(s, inv, con) == [step |-> s, invoked |-> inv, consulted |-> con]

\* The caller starts a call: the call before becomes prev.
Begin(m, op, k, p) ==
    [m EXCEPT !.prev = m.cur,
              !.cur = [op |-> op, k |-> k, p |-> p, out |-> "running", val |-> None,
                       msg |-> <<"", 0>>, path |-> "none", pred |-> None,
                       save |-> FALSE, n |-> 0, reent |-> FALSE, unwound |-> {}]]

\* A lookup returns v: to the user function frame that called it, or to the caller.
Deliver(m, v) ==
    IF m.stack = <<>>
    THEN [m EXCEPT !.status = "ready", !.cur.out = "ret", !.cur.val = Some(v)]
    ELSE [m EXCEPT !.stack[Len(m.stack)].acc = @ + v,
                   !.stack[Len(m.stack)].i = @ + 1]

\* panic!: unwinds every frame to the caller; the Memoizer is left as it is.
\* cur.unwound: the keys whose user function was running when it happened.
Panic(m, kind, k) ==
    [m EXCEPT !.stack = <<>>, !.status = "ready", !.cur.out = "panic",
              !.cur.msg = <<kind, k>>,
              !.cur.unwound = {m.stack[i].k : i \in {j \in 1..Len(m.stack) :
                                                      m.stack[j].pc = "user"}}]

AtEnter(m) == m.status = "running" /\ m.stack # <<>> /\ Top(m).pc = "enter"
AtUser(m) == m.status = "running" /\ m.stack # <<>> /\ Top(m).pc = "user"
Path(m, p) == IF Depth(m) = 1 THEN p ELSE m.cur.path

\* The user function is invoked for k under persist decision save.
Invoked(l, k, save) ==
    IF k \in l.accepted THEN [l EXCEPT !.again = @ \cup {k}]
    ELSE IF k \in l.rejected THEN l
    ELSE IF save THEN [l EXCEPT !.accepted = @ \cup {k}]
    ELSE [l EXCEPT !.rejected = @ \cup {k}]

\* line 203 finds InProgress: line 222 panics.
CircularGuard(b, m) ==
    /\ AtEnter(m)
    /\ get(b, m.cache, Top(m).k).some
    /\ get(b, m.cache, Top(m).k).x.tag = "InProgress"
\* CircularStep storing a value for the key before it panics.
CircularStep_Finalize(b, m) ==
    Panic([m EXCEPT !.ev = Event("circular", FALSE, FALSE),
                    !.cur.path = Path(m, "circular"),
                    !.cache = write(b, m.cache, get_mut(b, m.cache, Top(m).k).x,
                                    Finished(0))],
          "circular", Top(m).k)

CircularStep(b, m) ==
    Panic([m EXCEPT !.ev = Event("circular", FALSE, FALSE),
                    !.cur.path = Path(m, "circular")],
          "circular", Top(m).k)

\* MissStep with the InProgress insert of lines 205-211 left out.
MissStep_NoMarker(b, m) ==
    LET k == Top(m).k
        save == IF m.memo_predicate.some THEN PredApply(m.memo_predicate.x, k) ELSE TRUE
    IN  [m EXCEPT !.ev = Event("miss", TRUE, m.memo_predicate.some),
                  !.cur.path = Path(m, "miss"),
                  !.cur.pred = IF Depth(m) = 1 THEN m.memo_predicate ELSE @,
                  !.cur.save = IF Depth(m) = 1 THEN save ELSE @,
                  !.cur.n = IF k = m.cur.k /\ @ < 2 THEN @ + 1 ELSE @,
                  !.stack[Len(m.stack)] =
                      [@ EXCEPT !.pc = "user", !.save = save,
                                !.acc = Base(user_function, k)]]

\* MissStep persisting every key, the predicate ignored.
MissStep_AlwaysSave(b, m) ==
    LET k == Top(m).k
        ins == insert(b, m.cache, k, InProgress)
        m1 == [m EXCEPT !.ev = Event("miss", FALSE, m.memo_predicate.some),
                        !.cur.path = Path(m, "miss"),
                        !.cur.pred = IF Depth(m) = 1 THEN m.memo_predicate ELSE @,
                        !.cur.save = IF Depth(m) = 1 THEN TRUE ELSE @,
                        !.cache = ins.map]
    IN  IF ~ins.res.ok
        THEN Panic(m1, "conflict", k)
        ELSE [m1 EXCEPT !.ev.invoked = TRUE,
                        !.cur.n = IF k = m.cur.k /\ @ < 2 THEN @ + 1 ELSE @,
                        !.stack[Len(m.stack)] =
                            [@ EXCEPT !.pc = "user", !.save = TRUE,
                                      !.acc = Base(user_function, k)]]

\* MissStep with the default inverted: no predicate installed means do not persist.
MissStep_DefaultFalse(b, m) ==
    LET k == Top(m).k
        save == IF m.memo_predicate.some THEN PredApply(m.memo_predicate.x, k) ELSE FALSE
        ins == insert(b, m.cache, k, InProgress)
        m1 == [m EXCEPT !.ev = Event("miss", FALSE, m.memo_predicate.some),
                        !.cur.path = Path(m, "miss"),
                        !.cur.pred = IF Depth(m) = 1 THEN m.memo_predicate ELSE @,
                        !.cur.save = IF Depth(m) = 1 THEN save ELSE @,
                        !.cache = IF save THEN ins.map ELSE @]
    IN  IF save /\ ~ins.res.ok
        THEN Panic(m1, "conflict", k)
        ELSE [m1 EXCEPT !.ev.invoked = TRUE,
                        !.cur.n = IF k = m.cur.k /\ @ < 2 THEN @ + 1 ELSE @,
                        !.stack[Len(m.stack)] =
                            [@ EXCEPT !.pc = "user", !.save = save,
                                      !.acc = Base(user_function, k)]]

\* line 203 finds no entry: lines 204-213, up to the call of the user function.
MissGuard(b, m) == AtEnter(m) /\ ~get(b, m.cache, Top(m).k).some
MissStep(b, m) ==
    LET k == Top(m).k
        save == IF m.memo_predicate.some THEN PredApply(m.memo_predicate.x, k) ELSE TRUE
        ins == insert(b, m.cache, k, InProgress)
        m1 == [m EXCEPT !.ev = Event("miss", FALSE, m.memo_predicate.some),
                        !.cur.path = Path(m, "miss"),
                        !.cur.pred = IF Depth(m) = 1 THEN m.memo_predicate ELSE @,
                        !.cur.save = IF Depth(m) = 1 THEN save ELSE @,
                        !.cache = IF save THEN ins.map ELSE @]
    IN  IF save /\ ~ins.res.ok
        THEN Panic(m1, "conflict", k)
        ELSE [m1 EXCEPT !.ev.invoked = TRUE,
                        !.cur.n = IF k = m.cur.k /\ @ < 2 THEN @ + 1 ELSE @,
                        !.stack[Len(m.stack)] =
                            [@ EXCEPT !.pc = "user", !.save = save,
                                      !.acc = Base(user_function, k)]]

\* line 203 finds Finished(v): line 223 returns v.
HitGuard(b, m) ==
    /\ AtEnter(m)
    /\ get(b, m.cache, Top(m).k).some
    /\ get(b, m.cache, Top(m).k).x.tag = "Finished"
\* HitStep evaluating the miss path although the entry was found.
HitStep_Eager(b, m) == MissStep(b, m)

HitStep(b, m) ==
    Deliver([Pop(m) EXCEPT !.ev = Event("hit", FALSE, FALSE), !.cur.path = Path(m, "hit")],
            get(b, m.cache, Top(m).k).x.v)

\* The user function's next statement.
NextOp(m) == Body(user_function, Top(m).k)[Top(m).i]
UserAt(m, op) ==
    /\ AtUser(m)
    /\ Top(m).i <= Len(Body(user_function, Top(m).k))
    /\ NextOp(m).op = op

\* A lookup of k is running: some frame of the stack is for k.
OnStack(m, k) == \E i \in 1..Len(m.stack) : m.stack[i].k = k

\* mem.lookup(&k2) inside the user function.
NestedLookupGuard(b, m) == UserAt(m, "lookup") /\ Depth(m) < StackLimit
NestedLookupStep(b, m) ==
    [m EXCEPT !.stack = Append(@, Frame(NextOp(m).k)),
              !.cur.reent = @ \/ OnStack(m, NextOp(m).k),
              !.ev = Event("nested_lookup", FALSE, FALSE)]

\* The recursion runs out of stack: the process is aborted.
OverflowGuard(b, m) == UserAt(m, "lookup") /\ Depth(m) >= StackLimit
OverflowStep(b, m) ==
    [m EXCEPT !.status = "aborted", !.cur.out = "overflow",
              !.cur.reent = @ \/ OnStack(m, NextOp(m).k),
              !.ev = Event("overflow", FALSE, FALSE)]

\* mem.lookup_immut(&k2) inside the user function.
NestedImmutGuard(b, m) == UserAt(m, "lookup_immut")
\* NestedImmutStep leaving an InProgress marker for a key it did not find.
NestedImmutStep_Marks(b, m) ==
    [m EXCEPT !.stack[Len(m.stack)].peeked = lookup_immut(b, m, NextOp(m).k),
              !.stack[Len(m.stack)].i = @ + 1,
              !.cache = IF get(b, m.cache, NextOp(m).k).some THEN @
                        ELSE insert(b, m.cache, NextOp(m).k, InProgress).map,
              !.ev = Event("nested_lookup_immut", FALSE, FALSE)]

NestedImmutStep(b, m) ==
    [m EXCEPT !.stack[Len(m.stack)].peeked = lookup_immut(b, m, NextOp(m).k),
              !.stack[Len(m.stack)].i = @ + 1,
              !.ev = Event("nested_lookup_immut", FALSE, FALSE)]

\* mem.set_memo_predicate(p) inside the user function.
NestedSetPredGuard(b, m) == UserAt(m, "set_memo_predicate")
NestedSetPredStep(b, m) ==
    [set_memo_predicate(m, NextOp(m).p) EXCEPT
        !.stack[Len(m.stack)].i = @ + 1,
        !.ev = Event("nested_set_memo_predicate", FALSE, FALSE)]

\* FinishStep storing the value by insert, whatever the persist decision was.
FinishStep_Insert(b, m) ==
    LET k == Top(m).k
        v == Top(m).acc
    IN  Deliver([Pop(m) EXCEPT !.cache = insert(b, m.cache, k, Finished(v)).map,
                               !.ev = Event("finish", FALSE, FALSE)], v)

\* FinishStep returning the value without the update of lines 216-218.
FinishStep_Forget(b, m) ==
    Deliver([Pop(m) EXCEPT !.ev = Event("finish", FALSE, FALSE)], Top(m).acc)

\* FinishStep asking the installed predicate again when the value is back.
FinishStep_Reconsult(b, m) ==
    LET k == Top(m).k
        v == Top(m).acc
        at == get_mut(b, m.cache, k)
        save == IF m.memo_predicate.some THEN PredApply(m.memo_predicate.x, k) ELSE TRUE
        c1 == IF save /\ at.some THEN write(b, m.cache, at.x, Finished(v))
              ELSE m.cache
    IN  Deliver([Pop(m) EXCEPT !.cache = c1, !.ev = Event("finish", FALSE, FALSE)], v)

\* The user function returns v: lines 214-219 and 223.
FinishGuard(b, m) == AtUser(m) /\ Top(m).i > Len(Body(user_function, Top(m).k))
FinishStep(b, m) ==
    LET k == Top(m).k
        v == Top(m).acc
        at == get_mut(b, m.cache, k)
        c1 == IF Top(m).save /\ at.some THEN write(b, m.cache, at.x, Finished(v))
              ELSE m.cache
    IN  Deliver([Pop(m) EXCEPT !.cache = c1, !.ev = Event("finish", FALSE, FALSE)], v)

\* ---- actions ----
Ready == \A b \in Backends : memo[b].status = "ready"

CallLookup(k) ==
    /\ Ready
    /\ memo' = [b \in Backends |->
                  [Begin(memo[b], "lookup", k, "all") EXCEPT
                      !.status = "running", !.stack = <<Frame(k)>>,
                      !.ev = Event("call_lookup", FALSE, FALSE)]]
    /\ UNCHANGED <<user_function, life>>

CallLookupImmut(k) ==
    /\ Ready
    /\ memo' = [b \in Backends |->
                  [Begin(memo[b], "lookup_immut", k, "all") EXCEPT
                      !.cur.out = "ret", !.cur.val = lookup_immut(b, memo[b], k),
                      !.ev = Event("call_lookup_immut", FALSE, FALSE)]]
    /\ UNCHANGED <<user_function, life>>

CallSetMemoPredicate(p) ==
    /\ Ready
    /\ memo' = [b \in Backends |->
                  [Begin(set_memo_predicate(memo[b], p), "set_memo_predicate", 0, p) EXCEPT
                      !.cur.out = "ret",
                      !.ev = Event("call_set_memo_predicate", FALSE, FALSE)]]
    /\ UNCHANGED <<user_function, life>>

LookupHit ==
    /\ \E b \in Backends : HitGuard(b, memo[b])
    /\ memo' = [b \in Backends |->
                  IF HitGuard(b, memo[b]) THEN HitStep(b, memo[b]) ELSE memo[b]]
    /\ UNCHANGED <<user_function, life>>

LookupCircular ==
    /\ \E b \in Backends : CircularGuard(b, memo[b])
    /\ memo' = [b \in Backends |->
                  IF CircularGuard(b, memo[b]) THEN CircularStep(b, memo[b]) ELSE memo[b]]
    /\ UNCHANGED <<user_function, life>>

LookupMiss ==
    /\ \E b \in Backends : MissGuard(b, memo[b])
    /\ memo' = [b \in Backends |->
                  IF MissGuard(b, memo[b]) THEN MissStep(b, memo[b]) ELSE memo[b]]
    /\ UNCHANGED <<user_function, life>>

UserLookup ==
    /\ \E b \in Backends : NestedLookupGuard(b, memo[b])
    /\ memo' = [b \in Backends |->
                  IF NestedLookupGuard(b, memo[b]) THEN NestedLookupStep(b, memo[b])
                  ELSE memo[b]]
    /\ UNCHANGED <<user_function, life>>

StackOverflow ==
    /\ \E b \in Backends : OverflowGuard(b, memo[b])
    /\ memo' = [b \in Backends |->
                  IF OverflowGuard(b, memo[b]) THEN OverflowStep(b, memo[b]) ELSE memo[b]]
    /\ UNCHANGED <<user_function, life>>

UserLookupImmut ==
    /\ \E b \in Backends : NestedImmutGuard(b, memo[b])
    /\ memo' = [b \in Backends |->
                  IF NestedImmutGuard(b, memo[b]) THEN NestedImmutStep(b, memo[b])
                  ELSE memo[b]]
    /\ UNCHANGED <<user_function, life>>

UserSetMemoPredicate ==
    /\ \E b \in Backends : NestedSetPredGuard(b, memo[b])
    /\ memo' = [b \in Backends |->
                  IF NestedSetPredGuard(b, memo[b]) THEN NestedSetPredStep(b, memo[b])
                  ELSE memo[b]]
    /\ UNCHANGED <<user_function, life>>

LookupFinish ==
    /\ \E b \in Backends : FinishGuard(b, memo[b])
    /\ memo' = [b \in Backends |->
                  IF FinishGuard(b, memo[b]) THEN FinishStep(b, memo[b]) ELSE memo[b]]
    /\ UNCHANGED <<user_function, life>>

Next ==
    \/ \E k \in Keys : CallLookup(k)
    \/ \E k \in Keys : CallLookupImmut(k)
    \/ \E p \in Predicates : CallSetMemoPredicate(p)
    \/ LookupHit
    \/ LookupCircular
    \/ LookupMiss
    \/ UserLookup
    \/ StackOverflow
    \/ UserLookupImmut
    \/ UserSetMemoPredicate
    \/ LookupFinish

Spec == Init /\ [][Next]_vars

\* The steps the running lookup takes by itself, once the caller has made a
\* call: the code between the entry to lookup and its return or panic.
Step ==
    \/ LookupHit
    \/ LookupCircular
    \/ LookupMiss
    \/ UserLookup
    \/ StackOverflow
    \/ UserLookupImmut
    \/ UserSetMemoPredicate
    \/ LookupFinish

\* A call that has been made runs on: the program is sequential and nothing
\* but its own steps can hold a running lookup back.
LiveSpec == Spec /\ WF_vars(Step)

\* The miss of lines 204-216 with the invocation of line 214 entered in the
\* record of first-miss decisions.
LookupMissCounted ==
    /\ \E b \in Backends : MissGuard(b, memo[b])
    /\ memo' = [b \in Backends |->
                  IF MissGuard(b, memo[b]) THEN MissStep(b, memo[b]) ELSE memo[b]]
    /\ life' = [b \in Backends |->
                  IF MissGuard(b, memo[b]) /\ memo'[b].ev.invoked
                  THEN Invoked(life[b], Top(memo'[b]).k, Top(memo'[b]).save)
                  ELSE life[b]]
    /\ UNCHANGED user_function

LifeNext ==
    \/ \E k \in Keys : CallLookup(k)
    \/ \E k \in Keys : CallLookupImmut(k)
    \/ \E p \in Predicates : CallSetMemoPredicate(p)
    \/ LookupHit
    \/ LookupCircular
    \/ LookupMissCounted
    \/ UserLookup
    \/ StackOverflow
    \/ UserLookupImmut
    \/ UserSetMemoPredicate
    \/ LookupFinish

LifeSpec == Init /\ [][LifeNext]_vars

\* tests::fibs_ord and tests::fibs_hash: both Memoizers over fibonacci, the
\* tests' keys looked up in any order, any number of times.
FibInit == Init /\ user_function = "fibonacci"

FibNext ==
    \/ \E k \in TestKeys : CallLookup(k)
    \/ LookupHit
    \/ LookupMiss
    \/ UserLookup
    \/ LookupFinish

FibSpec == FibInit /\ [][FibNext]_vars

\* ---- claims ----
\* The caller's last two calls on memo[b] were lookup(k), lookup(k).
TwiceInSuccession(m) ==
    /\ m.cur.op = "lookup"
    /\ m.prev.op = "lookup"
    /\ m.prev.k = m.cur.k

\* C1 as stated: for all keys k, two lookups of k in succession invoke the
\* user function at most once for k.
C1_TwiceInvokesOnce ==
    \A b \in Backends :
        TwiceInSuccession(memo[b]) => memo[b].prev.n + memo[b].cur.n <= 1

\* C1 amended: when the first lookup(k) hits, or misses with the persist
\* decision accepting k, the two calls invoke the user function at most once
\* for k, and if the first returned v the second is a cache hit returning v
\* with no invocation.
C1_TwicePersistedInvokesOnce ==
    \A b \in Backends :
        LET m == memo[b] IN
        (TwiceInSuccession(m) /\ (m.prev.path = "miss" => m.prev.save)) =>
            /\ m.prev.n + m.cur.n <= 1
            /\ (m.prev.out = "ret" /\ m.cur.path # "none") =>
                   (m.cur.path = "hit" /\ m.cur.n = 0)
            /\ (m.prev.out = "ret" /\ m.cur.out # "running") =>
                   (m.cur.out = "ret" /\ m.cur.val = m.prev.val)

C1_Witness ==
    \E b \in Backends :
        LET m == memo[b] IN
        /\ TwiceInSuccession(m)
        /\ m.prev.path = "miss" /\ m.prev.save /\ m.prev.n = 1 /\ m.prev.out = "ret"
        /\ m.cur.path = "hit" /\ m.cur.out = "ret" /\ m.cur.n = 0

\* C2 as stated: a lookup(k) that transitively calls lookup(k) again before
\* returning ends in the circular-dependency panic: it neither returns a
\* value nor recurses until the stack is exhausted.
C2_ReentryPanicsCircular ==
    \A b \in Backends :
        LET m == memo[b] IN
        (m.cur.op = "lookup" /\ m.cur.reent /\ m.cur.out # "running") =>
            (m.cur.out = "panic" /\ m.cur.msg[1] = "circular")

\* The slot the store holds for key k: "Absent", "InProgress" or "Finished".
SlotTag(b, c, k) ==
    LET es == {e \in Entries(b, c) : e[1] = k}
    IN  IF es = {} THEN "Absent" ELSE (CHOOSE e \in es : TRUE)[2].tag

SlotMove(s, t) ==
    \/ s = t
    \/ s = "Absent" /\ t = "InProgress"
    \/ s = "InProgress" /\ t = "Finished"

\* C3: in every step each key's slot stays as it is or moves Absent ->
\* InProgress or InProgress -> Finished; no other move, no removal, and a
\* key never has two slots.
C3_SlotMonotonic ==
    [][\A b \in Backends : \A k \in Keys :
          /\ SlotMove(SlotTag(b, memo[b].cache, k), SlotTag(b, memo'[b].cache, k))
          /\ Cardinality({e \in Entries(b, memo'[b].cache) : e[1] = k}) <= 1]_vars

C3_Witness ==
    \E b \in Backends : \E k1, k2, k3 \in Keys :
        /\ SlotTag(b, memo[b].cache, k1) = "Finished"
        /\ SlotTag(b, memo[b].cache, k2) = "InProgress"
        /\ SlotTag(b, memo[b].cache, k3) = "Absent"
        /\ \E i \in 1..Len(memo[b].stack) :
              /\ memo[b].stack[i].k = k3
              /\ memo[b].stack[i].pc = "user"
              /\ ~memo[b].stack[i].save

\* C4: with the fibonacci user function, on both backends, every lookup(n)
\* that returns returns F(n), every value stored for n is F(n), and no lookup
\* panics; the tests' values are F(20) = 6765, F(30) = 832040 and
\* F(40) = 102334155.
C4_FibonacciCorrect ==
    user_function = "fibonacci" =>
        \A b \in Backends :
            LET m == memo[b] IN
            /\ m.cur.op = "lookup" => m.cur.out \in {"running", "ret"}
            /\ (m.cur.op = "lookup" /\ m.cur.out = "ret") =>
                  /\ m.cur.val = Some(fib(m.cur.k))
                  /\ m.cur.k = 20 => m.cur.val = Some(6765)
                  /\ m.cur.k = 30 => m.cur.val = Some(832040)
                  /\ m.cur.k = 40 => m.cur.val = Some(102334155)
            /\ \A e \in Entries(b, m.cache) :
                  e[2].tag = "Finished" => e[2].v = fib(e[1])
            /\ \A i \in 1..Len(m.stack) :
                  (m.stack[i].pc = "user"
                     /\ m.stack[i].i > Len(fibonacci_body(m.stack[i].k)))
                  => m.stack[i].acc = fib(m.stack[i].k)

C4_Witness ==
    \A b \in Backends :
        /\ memo[b].cur.op = "lookup" /\ memo[b].cur.k = 40
        /\ memo[b].cur.out = "ret" /\ memo[b].cur.val = Some(102334155)
        /\ memo[b].cur.path = "miss"
        /\ memo[b].prev.op = "lookup" /\ memo[b].prev.k = 20
        /\ memo[b].prev.val = Some(6765)

\* The store holds slot mv for key k.
Holds(b, c, k, mv) == <<k, mv>> \in Entries(b, c)
HasSlot(b, c, k) == \E e \in Entries(b, c) : e[1] = k
FinishedValue(b, c, k) == (CHOOSE e \in Entries(b, c) : e[1] = k)[2].v

\* C5: the step of a lookup(k) that finds Finished(v) returns v (to the caller
\* or to the calling user function) and changes neither the store nor the
\* predicate; it invokes no user function and consults no predicate.
C5_HitNoSideEffect ==
    [][\A b \in Backends :
          HitGuard(b, memo[b]) =>
              LET m == memo[b]
                  m2 == memo'[b]
                  v == FinishedValue(b, m.cache, Top(m).k)
                  d == Depth(m)
              IN  /\ m2.cache = m.cache
                  /\ m2.memo_predicate = m.memo_predicate
                  /\ ~m2.ev.invoked /\ ~m2.ev.consulted
                  /\ m2.cur.n = m.cur.n
                  /\ Len(m2.stack) = d - 1
                  /\ d = 1 => (m2.status = "ready" /\ m2.cur.out = "ret"
                               /\ m2.cur.val = Some(v))
                  /\ d > 1 => (m2.stack[d - 1].acc = m.stack[d - 1].acc + v
                               /\ m2.stack[d - 1].pc = "user")]_vars

C5_Witness ==
    \E b \in Backends :
        LET m == memo[b] IN
        /\ m.ev.step = "hit" /\ m.cur.path = "hit" /\ m.cur.out = "ret"
        /\ m.memo_predicate.some /\ ~PredApply(m.memo_predicate.x, m.cur.k)
        /\ m.cur.val = Some(FinishedValue(b, m.cache, m.cur.k))

\* The caller's last two calls on memo[b] were lookup(k), which missed and
\* returned, then lookup_immut(k).
ComputedThenImmut(m) ==
    /\ m.cur.op = "lookup_immut"
    /\ m.prev.op = "lookup"
    /\ m.prev.k = m.cur.k
    /\ m.prev.path = "miss"
    /\ m.prev.out = "ret"

\* C6: with a predicate installed when lookup(k) misses, a key the predicate
\* rejects has no slot once lookup(k) has returned and lookup_immut(k) right
\* after returns absent; a key it accepts is stored and lookup_immut(k) right
\* after returns the computed value.
C6_PredicateDecidesStorage ==
    \A b \in Backends :
        LET m == memo[b] IN
        /\ (m.cur.op = "lookup" /\ m.cur.path = "miss" /\ m.cur.out = "ret"
              /\ m.cur.pred.some) =>
               IF PredApply(m.cur.pred.x, m.cur.k)
               THEN Holds(b, m.cache, m.cur.k, Finished(m.cur.val.x))
               ELSE ~HasSlot(b, m.cache, m.cur.k)
        /\ (ComputedThenImmut(m) /\ m.prev.pred.some) =>
               IF PredApply(m.prev.pred.x, m.cur.k)
               THEN m.cur.val = m.prev.val
               ELSE m.cur.val = None

C6_Witness ==
    \E b \in Backends :
        LET m == memo[b] IN
        /\ ComputedThenImmut(m)
        /\ m.prev.pred = Some("odd")
        /\ m.cur.k % 2 = 0
        /\ m.cur.val = None
        /\ \E k \in Keys : k % 2 = 1 /\ HasSlot(b, m.cache, k)

\* C7: with no predicate installed when lookup(k) misses, once it has
\* returned v the store holds Finished(v) for k, as it does when the
\* predicate installed accepts every key.
C7_DefaultPersists ==
    \A b \in Backends :
        LET m == memo[b] IN
        (m.cur.op = "lookup" /\ m.cur.path = "miss" /\ m.cur.out = "ret"
           /\ (~m.cur.pred.some \/ m.cur.pred = Some("all"))) =>
            /\ m.cur.save
            /\ Holds(b, m.cache, m.cur.k, Finished(m.cur.val.x))
            /\ lookup_immut(b, m, m.cur.k) = m.cur.val

C7_Witness ==
    \E b \in Backends :
        LET m == memo[b] IN
        /\ m.cur.op = "lookup" /\ m.cur.path = "miss" /\ m.cur.out = "ret"
        /\ ~m.cur.pred.some
        /\ Holds(b, m.cache, m.cur.k, Finished(m.cur.val.x))

\* What lookup_immut(k) is to return for store c: the value of k's Finished
\* slot, absent when k has no slot or an InProgress one.
FinishedOrAbsent(b, c, k) ==
    IF \E e \in Entries(b, c) : e[1] = k /\ e[2].tag = "Finished"
    THEN Some(FinishedValue(b, c, k))
    ELSE None

\* The key of the lookup_immut the running user function has just made.
PeekedKey(m) == Body(user_function, Top(m).k)[Top(m).i - 1].k

\* C8: lookup_immut(k), called by the caller or from inside the user function,
\* returns v exactly when the store holds Finished(v) for k, and absent when
\* k has no slot or its slot is InProgress.
C8_LookupImmutResult ==
    \A b \in Backends :
        LET m == memo[b] IN
        /\ m.cur.op = "lookup_immut" => m.cur.val = FinishedOrAbsent(b, m.cache, m.cur.k)
        /\ m.ev.step = "nested_lookup_immut" =>
               Top(m).peeked = FinishedOrAbsent(b, m.cache, PeekedKey(m))

C8_Witness ==
    \E b \in Backends :
        LET m == memo[b] IN
        /\ m.ev.step = "nested_lookup_immut"
        /\ PeekedKey(m) = Top(m).k
        /\ SlotTag(b, m.cache, PeekedKey(m)) = "InProgress"
        /\ Top(m).peeked = None
        /\ \E k \in Keys : SlotTag(b, m.cache, k) = "Finished"

\* C9: a step that is a lookup_immut, by the caller or inside the user
\* function, leaves the store and the predicate as they were, starts no
\* lookup, invokes no user function and consults no predicate.
C9_LookupImmutFrame ==
    [][\A b \in Backends :
          memo'[b].ev.step \in {"call_lookup_immut", "nested_lookup_immut"} =>
              /\ memo'[b].cache = memo[b].cache
              /\ memo'[b].memo_predicate = memo[b].memo_predicate
              /\ ~memo'[b].ev.invoked /\ ~memo'[b].ev.consulted
              /\ Len(memo'[b].stack) = Len(memo[b].stack)
              /\ \A i \in 1..Len(memo[b].stack) :
                    /\ memo'[b].stack[i].k = memo[b].stack[i].k
                    /\ memo'[b].stack[i].pc = memo[b].stack[i].pc
                    /\ memo'[b].stack[i].acc = memo[b].stack[i].acc]_vars

C9_Witness ==
    \E b \in Backends :
        LET m == memo[b] IN
        /\ m.ev.step = "nested_lookup_immut"
        /\ SlotTag(b, m.cache, PeekedKey(m)) = "Absent"
        /\ m.memo_predicate.some
        /\ Top(m).peeked = None

\* What a caller observes of a Memoizer: the outcome of its calls, the
\* values handed to the running user function, the step taken.
Observed(m) == <<m.status, m.cur, m.prev, m.stack, m.memo_predicate, m.ev>>

\* C10: driven by the same calls, the new_hash Memoizer and the new_ord
\* Memoizer return the same values and panic alike at every step.
C10_BackendsAgree ==
    \A b1, b2 \in Backends : Observed(memo[b1]) = Observed(memo[b2])

C10_Witness ==
    /\ \A b \in Backends :
          /\ memo[b].cur.op = "lookup" /\ memo[b].cur.path = "miss"
          /\ memo[b].cur.out = "ret"
          /\ memo[b].prev.out = "panic"
    /\ \E bi \in 0..(NBuckets - 1) :
          /\ Len(memo["hash"].cache.buckets[bi]) >= 2
          /\ memo["hash"].cache.buckets[bi][1][1] > memo["hash"].cache.buckets[bi][2][1]

\* C11: the internal-invariant failure of lines 207-210 (the insert of the
\* InProgress marker finding an entry already there) happens in no call, in
\* any sequence of lookups, nested lookups and set_memo_predicate calls,
\* aborted lookups included: no call ever ends with that panic.
C11_NoInsertConflict ==
    \A b \in Backends :
        /\ memo[b].cur.msg[1] # "conflict"
        /\ memo[b].prev.msg[1] # "conflict"

\* A miss has just inserted its marker under an installed predicate, while a
\* marker left by an aborted lookup is still in the store.
C11_Witness ==
    \E b \in Backends :
        /\ memo[b].ev.step = "miss"
        /\ memo[b].ev.invoked
        /\ memo[b].memo_predicate.some
        /\ Top(memo[b]).save
        /\ SlotTag(b, memo[b].cache, Top(memo[b]).k) = "InProgress"
        /\ memo[b].prev.out = "panic"
        /\ \E k \in Keys : /\ ~OnStack(memo[b], k)
                           /\ SlotTag(b, memo[b].cache, k) = "InProgress"

\* C12: set_memo_predicate(p), from the caller or from inside the user
\* function, installs p in place of the predicate before and leaves the store
\* as it is; no other step changes the predicate.  A key that is Finished is
\* served as a hit whatever the installed predicate says of it, and a key
\* that misses is decided by the predicate installed at that miss.
C12_SetPredicateKeepsStore ==
    [][\A b \in Backends :
          LET m == memo[b]
              m2 == memo'[b]
              top == m.status = "ready" /\ m2.ev.step = "call_set_memo_predicate"
              nested == NestedSetPredGuard(b, m)
          IN  /\ top => (m2.cache = m.cache /\ m2.memo_predicate = Some(m2.cur.p))
              /\ nested => (m2.cache = m.cache
                            /\ m2.memo_predicate = Some(NextOp(m).p))
              /\ ~(top \/ nested) => m2.memo_predicate = m.memo_predicate
              /\ HitGuard(b, m) => (m2.ev.step = "hit" /\ m2.cache = m.cache)
              /\ (MissGuard(b, m) /\ m.memo_predicate.some) =>
                     /\ m2.ev.step = "miss"
                     /\ m2.ev.invoked =>
                            Top(m2).save = PredApply(m.memo_predicate.x, Top(m).k)]_vars

\* A key was computed and stored, then a predicate rejecting it was
\* installed, and the lookup after that was a hit returning the stored value.
C12_Witness ==
    \E b \in Backends :
        LET m == memo[b] IN
        /\ m.prev.op = "set_memo_predicate"
        /\ m.memo_predicate = Some(m.prev.p)
        /\ m.cur.op = "lookup" /\ m.cur.out = "ret" /\ m.cur.path = "hit"
        /\ ~PredApply(m.prev.p, m.cur.k)
        /\ Holds(b, m.cache, m.cur.k, Finished(m.cur.val.x))

\* C13: a slot that is Finished(v) is Finished(v) after every step, and
\* every lookup(k) and lookup_immut(k) that returns while k's slot is
\* Finished(v), to the caller or to the user function, returns v: once
\* lookup(k) has returned v for a persisted key, v is what every later call
\* for k returns.
C13_FinishedValueStable ==
    [][\A b \in Backends : \A k \in Keys :
          LET m == memo[b]
              m2 == memo'[b]
              d == Depth(m)
          IN  SlotTag(b, m.cache, k) = "Finished" =>
                LET v == FinishedValue(b, m.cache, k) IN
                /\ Holds(b, m2.cache, k, Finished(v))
                /\ (m2.cur.k = k /\ m2.cur.out = "ret" /\ m2.cur.op = "lookup")
                       => m2.cur.val = Some(v)
                /\ (m2.cur.k = k /\ m2.cur.out = "ret" /\ m2.cur.op = "lookup_immut")
                       => m2.cur.val = Some(v)
                /\ (AtEnter(m) /\ Top(m).k = k /\ d > 1)
                       => m2.stack[d - 1].acc = m.stack[d - 1].acc + v
                /\ (NestedImmutGuard(b, m) /\ NextOp(m).k = k)
                       => Top(m2).peeked = Some(v)]_vars

\* lookup(k) computed a value for k out of nested lookups and stored it, and
\* the lookup_immut(k) after it returned that value.
C13_Witness ==
    \E b \in Backends :
        LET m == memo[b] IN
        /\ user_function = "fibonacci"
        /\ m.prev.op = "lookup" /\ m.prev.k >= 2 /\ m.prev.out = "ret"
        /\ m.prev.path = "miss" /\ m.prev.save
        /\ m.cur.op = "lookup_immut" /\ m.cur.k = m.prev.k
        /\ m.cur.val = m.prev.val
        /\ Holds(b, m.cache, m.cur.k, Finished(m.prev.val.x))

\* C14: when a lookup has aborted with the circular-dependency panic, no key
\* whose user function was running at the abort has a Finished slot, and
\* lookup_immut of each such key is None, in the state the abort leaves and
\* as the result of a lookup_immut call made next.
C14_AbortLeavesNoValue ==
    \A b \in Backends :
        LET m == memo[b] IN
        /\ (m.cur.out = "panic" /\ m.cur.msg[1] = "circular") =>
               \A k \in m.cur.unwound :
                   /\ SlotTag(b, m.cache, k) # "Finished"
                   /\ lookup_immut(b, m, k) = None
        /\ (m.prev.out = "panic" /\ m.prev.msg[1] = "circular"
            /\ m.cur.op = "lookup_immut" /\ m.cur.k \in m.prev.unwound) =>
               /\ m.cur.val = None
               /\ SlotTag(b, m.cache, m.cur.k) # "Finished"

\* A lookup aborted while the user function was running for a key with a
\* marker and for a key without one; lookup_immut of the marked key followed.
C14_Witness ==
    \E b \in Backends :
        LET m == memo[b] IN
        /\ m.prev.out = "panic" /\ m.prev.msg[1] = "circular"
        /\ m.cur.op = "lookup_immut" /\ m.cur.k \in m.prev.unwound
        /\ m.cur.out = "ret" /\ m.cur.val = None
        /\ SlotTag(b, m.cache, m.cur.k) = "InProgress"
        /\ \E k \in m.prev.unwound : SlotTag(b, m.cache, k) = "Absent"

\* C15 as stated: in every reachable state, states after an aborted lookup
\* included, each key whose slot is InProgress has a running lookup frame,
\* and when no lookup is running no slot is InProgress.
C15_InProgressOnlyOnStack ==
    \A b \in Backends : \A k \in Keys :
        SlotTag(b, memo[b].cache, k) = "InProgress" => OnStack(memo[b], k)

\* C16: for a key the persist decision accepted, the InProgress marker is in
\* the store from the moment the user function is invoked for it until that
\* invocation returns: every running invocation with a positive decision has
\* its key's slot InProgress, through every nested call, and so at its return.
C16_MarkerDuringInvocation ==
    \A b \in Backends :
        \A i \in 1..Len(memo[b].stack) :
            LET f == memo[b].stack[i] IN
            (f.pc = "user" /\ f.save) =>
                /\ Holds(b, memo[b].cache, f.k, InProgress)
                /\ get(b, memo[b].cache, f.k) = Some(InProgress)

\* A nested invocation for an accepted key has made its own nested lookups and
\* is about to return, inside an invocation for another accepted key.
C16_Witness ==
    \E b \in Backends :
        LET m == memo[b] IN
        /\ FinishGuard(b, m)
        /\ Depth(m) >= 2
        /\ Top(m).save /\ Top(m).i > 1
        /\ m.stack[1].save /\ m.stack[1].k # Top(m).k
        /\ Holds(b, m.cache, Top(m).k, InProgress)
        /\ Holds(b, m.cache, m.stack[1].k, InProgress)

\* C17: on a miss the predicate is consulted once, in the step that decides
\* whether to persist and before the user function is invoked, and in no
\* other step; that decision stays with the invocation and governs the
\* insert of the marker and the update at the return, whatever predicate the
\* user function has installed by then.
C17_DecisionTakenOnce ==
    [][\A b \in Backends :
          LET m == memo[b]
              m2 == memo'[b]
              k == Top(m).k
              d == Depth(m)
              decision == IF m.memo_predicate.some
                          THEN PredApply(m.memo_predicate.x, k) ELSE TRUE
          IN  /\ MissGuard(b, m) =>
                    /\ m2.ev.invoked
                    /\ m2.ev.consulted = m.memo_predicate.some
                    /\ Top(m2).save = decision
                    /\ decision => Holds(b, m2.cache, k, InProgress)
                    /\ ~decision => m2.cache = m.cache
              /\ ~MissGuard(b, m) => ~m2.ev.consulted
              /\ \A i \in 1..Len(m2.stack) :
                    (i <= d /\ m.stack[i].pc = "user") =>
                        m2.stack[i].save = m.stack[i].save
              /\ FinishGuard(b, m) =>
                    /\ Top(m).save => Holds(b, m2.cache, k, Finished(Top(m).acc))
                    /\ ~Top(m).save => m2.cache = m.cache]_vars

\* Two lookups returned whose user functions replaced the predicate while
\* they ran: the first key was accepted at its miss and is stored although
\* the predicate of the second miss rejects it; the second was rejected at
\* its miss and is not stored although the installed predicate accepts it.
C17_Witness ==
    \E b \in Backends :
        LET m == memo[b] IN
        /\ m.prev.op = "lookup" /\ m.prev.out = "ret" /\ m.prev.save
        /\ m.cur.op = "lookup" /\ m.cur.out = "ret" /\ m.cur.path = "miss"
        /\ ~m.cur.save
        /\ m.cur.pred.some /\ ~PredApply(m.cur.pred.x, m.prev.k)
        /\ m.memo_predicate.some /\ PredApply(m.memo_predicate.x, m.cur.k)
        /\ SlotTag(b, m.cache, m.prev.k) = "Finished"
        /\ SlotTag(b, m.cache, m.cur.k) = "Absent"

\* The user functions whose nested lookups go to smaller keys only: a finite
\* acyclic dependency relation.
Acyclic == {"fibonacci", "peek", "tuner"}

\* C18: with a user function of finite acyclic dependencies no call ever
\* fails, under any sequence of predicates and earlier calls, and every
\* lookup that is started returns a value; a call fails only with a user
\* function that has a cycle, and a panic is the circular-dependency panic or
\* the insert conflict.
C18_AcyclicLookupReturns ==
    /\ [](\A b \in Backends :
             /\ memo[b].cur.out \in {"panic", "overflow"} =>
                    user_function \notin Acyclic
             /\ memo[b].status = "aborted" => user_function \notin Acyclic
             /\ memo[b].cur.out = "panic" =>
                    memo[b].cur.msg[1] \in {"circular", "conflict"})
    /\ \A b \in Backends :
          (user_function \in Acyclic /\ memo[b].cur.op = "lookup"
           /\ memo[b].cur.out = "running")
              ~> (memo[b].cur.out = "ret" /\ memo[b].cur.val # None)

\* A lookup of the largest key ran through nested lookups under a predicate
\* that rejects it and returned, after an earlier lookup had returned.
C18_Witness ==
    \E b \in Backends :
        LET m == memo[b] IN
        /\ user_function = "tuner"
        /\ m.prev.op = "lookup" /\ m.prev.out = "ret" /\ m.prev.path = "miss"
        /\ m.cur.op = "lookup" /\ m.cur.k = MaxKey /\ m.cur.out = "ret"
        /\ m.cur.path = "miss" /\ ~m.cur.save
        /\ m.cur.val # None

\* C19: over the life of a Memoizer, the user function is invoked at most
\* once for a key whose first miss the persist decision accepted, top-level
\* and nested lookups alike: no accepted key is ever invoked for again, a key
\* invoked for twice within one call was rejected at its first miss, and an
\* accepted key keeps a slot.
C19_AcceptedComputedOnce ==
    \A b \in Backends :
        /\ life[b].again = {}
        /\ life[b].accepted \cap life[b].rejected = {}
        /\ \A k \in life[b].accepted : HasSlot(b, memo[b].cache, k)
        /\ memo[b].cur.n >= 2 => memo[b].cur.k \in life[b].rejected

\* A key rejected at its first miss has been computed by two lookups in a
\* row, both returning, while another key, accepted at its first miss, is
\* stored.
C19_Witness ==
    \E b \in Backends :
        LET m == memo[b] IN
        /\ m.prev.op = "lookup" /\ m.prev.out = "ret" /\ m.prev.path = "miss"
        /\ m.cur.op = "lookup" /\ m.cur.out = "ret" /\ m.cur.path = "miss"
        /\ m.cur.k = m.prev.k
        /\ m.cur.k \in life[b].rejected
        /\ \E k \in life[b].accepted : SlotTag(b, m.cache, k) = "Finished"

\* C20 as stated: the user function never runs twice at the same time for a
\* key that has an InProgress marker: no two frames of the stack are inside
\* the user function for such a key.
C20_NoTwoInvocationsOfMarkedKey ==
    \A b \in Backends : \A k \in Keys :
        SlotTag(b, memo[b].cache, k) = "InProgress" =>
            Cardinality({i \in 1..Len(memo[b].stack) :
                            memo[b].stack[i].k = k /\ memo[b].stack[i].pc = "user"}) <= 1

====
